---- MODULE Spec2Model ----
(***************************************************************************)
(* Model of mkdocs-git-latest-changes-plugin:                              *)
(*   git_adapter.get_recent_changes  (history query, ordering, limiting)   *)
(*   helpers.sanitize_string         (strip + html.escape)                 *)
(*   git_adapter.get_repo_vendor, models.Loginfo URLs,                     *)
(*   presentation.render_table, and the hooks of plugin.py                 *)
(* Strings whose characters matter are sequences of one-character strings. *)
(***************************************************************************)
EXTENDS Integers, Sequences, FiniteSets, TLC

(* ------------------------------ bounds --------------------------------- *)
MaxFiles == 3       \* tracked files enumerated by git ls-files
MaxLimit == 3       \* largest history_limit tried (smallest is -1)
MaxTime  == 2       \* local wall-clock values of commit timestamps: 1..MaxTime
MaxLen   == 3       \* length of the strings given to sanitize_string
MaxFeatures  == 2   \* length of table_features given to render_table
MaxPageFiles == 2   \* tracked files of the repository the pages are built in

(* git_log_format has five placeholders: %cd %h %H %an %s *)
NumFields == 5

VARIABLES
    repo,                \* environment: what Repo(...)/active_branch/ls_files do
    tracked,             \* environment: per enumerated file, what git.log does
    pc,                  \* position of get_recent_changes
    history_limit,       \* argument of the running invocation
    files,               \* local `files` (file indices in enumeration order)
    filesBound,          \* whether the local name `files` has been assigned
    i,                   \* number of loop iterations completed or aborted
    loginfos,            \* local `loginfos`
    parsed,              \* value of `loginfos` right after the loop (line 169 input)
    history_limit_hint,  \* local `history_limit_hint`, a sequence of tokens
    queried,             \* files handed to git.log, in order
    warnings,            \* log.warning calls of the invocation
    raised,              \* exception leaving the function, "" if none
    handle,              \* the Repo object of the invocation: none, open, closed
    san_in, san_out, san_pc,  \* one application of sanitize_string
    fn_in, fn_out, fn_pc,     \* one application of a pure function
    plugin,              \* GitLatestChangesPlugin: is_serve, config
    docrepo,             \* environment of the hooks: the repository of the docs
    page                 \* the last on_page_markdown call and its effects

vars == << repo, tracked, pc, history_limit, files, filesBound, i, loginfos,
           parsed, history_limit_hint, queried, warnings, raised, handle,
           san_in, san_out, san_pc, fn_in, fn_out, fn_pc,
           plugin, docrepo, page >>

grcVars == << repo, tracked, pc, history_limit, files, filesBound, i, loginfos,
              parsed, history_limit_hint, queried, warnings, raised, handle >>
sanVars == << san_in, san_out, san_pc >>
fnVars  == << fn_in, fn_out, fn_pc >>
pgVars  == << plugin, docrepo, page >>

(* ------------------------ helpers.sanitize_string ---------------------- *)
Whitespace == { " ", "\t", "\n" }

RECURSIVE LStrip(_)
LStrip(s) ==
    IF s # << >> /\ Head(s) \in Whitespace THEN LStrip(Tail(s)) ELSE s

RECURSIVE RStrip(_)
RStrip(s) ==
    IF s # << >> /\ s[Len(s)] \in Whitespace
    THEN RStrip(SubSeq(s, 1, Len(s) - 1)) ELSE s

\* str.strip()
Strip(s) == RStrip(LStrip(s))

\* str.replace(old, new) for a one-character `old`
RECURSIVE Replace(_, _, _)
Replace(s, old, new) ==
    IF s = << >> THEN << >>
    ELSE (IF Head(s) = old THEN new ELSE << Head(s) >>)
         \o Replace(Tail(s), old, new)

EntAmp  == << "&", "a", "m", "p", ";" >>
EntLt   == << "&", "l", "t", ";" >>
EntGt   == << "&", "g", "t", ";" >>
EntQuot == << "&", "q", "u", "o", "t", ";" >>
EntApos == << "&", "#", "x", "2", "7", ";" >>
Entities == { EntAmp, EntLt, EntGt, EntQuot, EntApos }

\* html.escape(s, quote=True): "&" is replaced first, then < > " '
HtmlEscapeNoQuote(s) ==
    Replace(Replace(Replace(s, "&", EntAmp), "<", EntLt), ">", EntGt)

\* html.escape with "&" replaced after the other characters
HtmlEscapeAmpLast(s) ==
    Replace(Replace(Replace(Replace(Replace(s, "<", EntLt), ">", EntGt),
                            "\"", EntQuot), "'", EntApos), "&", EntAmp)

HtmlEscape(s) ==
    Replace(Replace(HtmlEscapeNoQuote(s), "\"", EntQuot), "'", EntApos)

\* sanitize_string with html.escape(string, quote=False)
sanitize_string_noquote(string) == HtmlEscapeNoQuote(Strip(string))

sanitize_string(string) == HtmlEscape(Strip(string))

(* -------------------- environment: repository and git ------------------ *)
\* What opening the repository does (git_adapter.py lines 85-87 and 102):
\*   "ok"       Repo(), active_branch and ls_files succeed
\*   "absent"   Repo(search_parent_directories=True) raises InvalidGitRepositoryError
\*   "corrupt"  Repo() raises some other exception
\*   "detached" repo.active_branch raises TypeError (detached HEAD)
\*   "lsfail"   git.ls_files raises GitCommandError
RepoStates == { "ok", "absent", "corrupt", "detached", "lsfail" }

\* Text of the %cd field under --date=iso8601-strict-local:
\*   form "offset": <local>+<off>     form "Z": <local>Z
\*   form "empty":  ""                form "junk": not ISO-8601
Offsets == { 0, 1 }
TsOffset(l, o) == [form |-> "offset", local |-> l, off |-> o]
TsZ(l)         == [form |-> "Z", local |-> l, off |-> 0]
TsEmpty        == [form |-> "empty", local |-> 0, off |-> 0]
TsJunk         == [form |-> "junk", local |-> 0, off |-> 0]
ValidTsTexts ==
    { TsOffset(l, o) : l \in 1..MaxTime, o \in Offsets } \cup { TsZ(1) }

Subjects == << << "<", "a", ">" >>, << " ", "b", "&" >>, << "\"", "c", "'" >>,
               << "\\", "t", " " >> >>
SubjectOf(f) == Subjects[((f - 1) % Len(Subjects)) + 1]
AuthorOf(f)  == << "J", ToString(f) >>
HashFullOf(f)  == << "a", "b", "c", ToString(f) >>
HashShortOf(f) == << "a", "b" >>

\* What git.log(..., file) does for the file at position f of the enumeration:
\* it raises `exc`, or returns text that splits on the separator into `n`
\* fields, the first n of <<%cd, %h, %H, %an, %s>>.
RawLog(f, e, n, t) ==
    [exc |-> e, n |-> n, ts |-> t, hash_short |-> HashShortOf(f),
     hash_full |-> HashFullOf(f), author |-> AuthorOf(f),
     subject |-> SubjectOf(f)]

RawLogsAt(f) ==
    { RawLog(f, "GitCommandError", 0, TsEmpty), RawLog(f, "OSError", 0, TsEmpty),
      RawLog(f, "", 1, TsEmpty),                     \* empty output
      RawLog(f, "", 1, TsOffset(1, 0)),              \* only the date
      RawLog(f, "", NumFields - 1, TsOffset(1, 0)),  \* last field missing
      RawLog(f, "", NumFields, TsJunk) }
    \cup { RawLog(f, "", NumFields, t) : t \in ValidTsTexts }

RECURSIVE Enumerations(_)
Enumerations(n) ==
    IF n = 0 THEN { << >> }
    ELSE { Append(s, r) : s \in Enumerations(n - 1), r \in RawLogsAt(n) }

\* "x".split("\n") never returns an empty list: at least one file is enumerated
Repositories == UNION { Enumerations(n) : n \in 1..MaxFiles }

Limits == (-1)..MaxLimit

(* ------------------- git_adapter.get_recent_changes -------------------- *)
\* try/except/else of lines 84-103: which exception leaves the statement,
\* whether a warning is logged, whether `files` gets assigned.
TryOpenLenient(r) ==
    [exc    |-> IF r = "lsfail" THEN "GitCommandError" ELSE "",
     warned |-> IF r \in { "absent", "corrupt", "detached" }
                THEN << [kind |-> "open", file |-> 0, hint |-> FALSE] >>
                ELSE << >>,
     bound  |-> r = "ok"]

TryOpen(r) ==
    [exc    |-> CASE r \in { "corrupt", "detached" } -> "PluginError"
                  [] r = "lsfail" -> "GitCommandError"
                  [] OTHER -> "",
     warned |-> IF r \in { "absent", "corrupt", "detached" }
                THEN << [kind |-> "open", file |-> 0, hint |-> FALSE] >>
                ELSE << >>,
     bound  |-> r = "ok"]

\* line 85: Repo(search_parent_directories=True) returned a Repo object; it
\* raises for an absent or unreadable repository
RepoConstructed(r) == r \in { "ok", "detached", "lsfail" }

\* lines 141-152 and 186: no statement closes the Repo. Every Loginfo keeps
\* `branch`, the Head object of repo.active_branch, which refers to the Repo,
\* so the Repo stays alive while an entry does; with no entry the Repo is
\* finalized when the garbage collector gets to it, at once or later
HandleAtReturn(returned) ==
    IF returned # << >> THEN { "open" } ELSE { "open", "closed" }

\* lines 136-139: endswith("Z") / replace("Z", "+00:00") / fromisoformat
NormalizeZ(t) == IF t.form = "Z" THEN TsOffset(t.local, 0) ELSE t
IsIsoFormat(t) == t.form = "offset"
FromIsoFormat(t) == [local |-> t.local, off |-> t.off]

\* aware datetimes compare by their UTC instant
Instant(dt) == dt.local - dt.off

\* lines 122-153: the exception the try body raises for a raw log, "" if none.
\* loginfo_safe[0] always exists; fromisoformat runs before loginfo_safe[1..4]
\* are read.
BodyException(raw) ==
    CASE raw.exc # "" -> raw.exc
      [] ~IsIsoFormat(NormalizeZ(raw.ts)) -> "ValueError"
      [] raw.n < NumFields -> "IndexError"
      [] OTHER -> ""

\* lines 141-152
MakeLoginfo(f, raw) ==
    [filepath   |-> f,
     timestamp  |-> FromIsoFormat(NormalizeZ(raw.ts)),
     hash_short |-> sanitize_string(raw.hash_short),
     hash_full  |-> sanitize_string(raw.hash_full),
     author     |-> sanitize_string(raw.author),
     message    |-> sanitize_string(raw.subject)]

\* lines 155-167: the except clause that handles an exception of the body
HandlerAbortOnGitError(exc) ==
    CASE exc = "IndexError" -> "skip_hint"
      [] OTHER -> "abort"

HandlerSkipAll(exc) ==
    CASE exc = "GitCommandError" -> "skip"
      [] exc = "IndexError" -> "skip_hint"
      [] OTHER -> "skip"

Handler(exc) ==
    CASE exc = "GitCommandError" -> "skip"
      [] exc = "IndexError" -> "skip_hint"
      [] OTHER -> "abort"

\* sorted(loginfos, key=attrgetter("timestamp"), reverse=True): stable
\* an unstable descending sort: an entry goes before the entries equal to it
InsertDescBeforeEqual(sorted, e) ==
    LET p == Cardinality({ k \in 1..Len(sorted) :
                             Instant(sorted[k].timestamp) > Instant(e.timestamp) })
    IN  SubSeq(sorted, 1, p) \o << e >> \o SubSeq(sorted, p + 1, Len(sorted))

InsertDesc(sorted, e) ==
    LET p == Cardinality({ k \in 1..Len(sorted) :
                             Instant(sorted[k].timestamp) >= Instant(e.timestamp) })
    IN  SubSeq(sorted, 1, p) \o << e >> \o SubSeq(sorted, p + 1, Len(sorted))

RECURSIVE SortDescStable(_)
SortDescStable(s) ==
    IF s = << >> THEN << >>
    ELSE InsertDesc(SortDescStable(SubSeq(s, 1, Len(s) - 1)), s[Len(s)])

SortUnsorted(s) == s

SortDesc(s) == SortDescStable(s)

\* lines 180-184
PStart == "\n\n<p style=\"margin-bottom: 1em; margin-top: 1em; padding-top: .5em; font-style: italic; font-size: smaller;\">"
PEnd   == "</p>\n\n"

PluralizedAlways(limit) == << ToString(limit), "entries", "are" >>

Pluralized(limit) ==
    IF limit = 1 THEN << "entry", "is" >>
    ELSE << ToString(limit), "entries", "are" >>

HintText(limit) ==
    << PStart, "Only", "the", "most", "recent" >> \o Pluralized(limit)
        \o << "displayed.", PEnd >>

\* line 173: history_limit if history_limit > 0 else False
EffectiveLimit(hl) == IF hl > 0 THEN hl ELSE 0

\* lines 176-186
LimitStageAtLeast(sorted, hl) ==
    LET limit == EffectiveLimit(hl)
    IN  IF limit # 0 /\ Len(sorted) >= limit
        THEN [loginfos |-> SubSeq(sorted, 1, limit), hint |-> HintText(limit)]
        ELSE [loginfos |-> sorted, hint |-> << >>]

LimitStage(sorted, hl) ==
    LET limit == EffectiveLimit(hl)
    IN  IF limit # 0 /\ Len(sorted) > limit
        THEN [loginfos |-> SubSeq(sorted, 1, limit), hint |-> HintText(limit)]
        ELSE [loginfos |-> sorted, hint |-> << >>]

\* lines 169-186
SortAndLimitTruncateFirst(entries, hl) ==
    LET cut == LimitStage(entries, hl)
    IN  [loginfos |-> SortDesc(cut.loginfos), hint |-> cut.hint]

SortAndLimit(entries, hl) == LimitStage(SortDesc(entries), hl)

(* ------------------------------ actions -------------------------------- *)
NoSanitize == san_in = << >> /\ san_out = << >> /\ san_pc = "idle"
NoFn == fn_in = << >> /\ fn_out = << >> /\ fn_pc = "idle"
NoPage == plugin = << >> /\ docrepo = << >> /\ page = << >>

Idle ==
    /\ pc = "idle" /\ history_limit = -1
    /\ files = << >> /\ filesBound = FALSE /\ i = 0
    /\ loginfos = << >> /\ parsed = << >> /\ history_limit_hint = << >>
    /\ queried = << >> /\ warnings = << >> /\ raised = ""
    /\ handle = "none"

Init ==
    /\ repo \in RepoStates
    /\ tracked \in Repositories
    /\ repo # "ok" => tracked = << RawLog(1, "GitCommandError", 0, TsEmpty) >>
    /\ Idle
    /\ NoSanitize /\ NoFn /\ NoPage

\* on_page_markdown calls get_recent_changes(history_limit=hl, ...): a fresh
\* activation, every local starts unassigned/empty
Call(hl) ==
    /\ pc \in { "idle", "returned", "raised" }
    /\ pc' = "open"
    /\ history_limit' = hl
    /\ files' = << >> /\ filesBound' = FALSE /\ i' = 0
    /\ loginfos' = << >> /\ parsed' = << >> /\ history_limit_hint' = << >>
    /\ queried' = << >> /\ warnings' = << >> /\ raised' = ""
    /\ handle' = "none"
    /\ UNCHANGED << repo, tracked >>
    /\ UNCHANGED << sanVars, fnVars, pgVars >>

\* lines 84-117: open the repository, enumerate the files, log their number
OpenRepo ==
    /\ pc = "open"
    /\ LET o == TryOpen(repo)
           \* line 105 reads `files`: UnboundLocalError if it was never assigned
           exc == IF o.exc # "" THEN o.exc
                  ELSE IF ~o.bound THEN "UnboundLocalError" ELSE ""
       IN  /\ warnings' = warnings \o o.warned
           /\ filesBound' = o.bound
           /\ files' = IF o.bound THEN [k \in 1..Len(tracked) |-> k] ELSE << >>
           /\ raised' = exc
           /\ pc' = IF exc = "" THEN "loop" ELSE "raised"
    /\ handle' = IF RepoConstructed(repo) THEN "open" ELSE "none"
    /\ UNCHANGED << repo, tracked, history_limit, i, loginfos, parsed,
                    history_limit_hint, queried >>
    /\ UNCHANGED << sanVars, fnVars, pgVars >>

\* lines 118-167 with except clauses that skip a file without log.warning
ProcessFile_SilentSkip ==
    /\ pc = "loop"
    /\ i < Len(files)
    /\ LET f   == files[i + 1]
           raw == tracked[f]
           exc == BodyException(raw)
           h   == IF exc = "" THEN "append" ELSE Handler(exc)
       IN  /\ queried' = Append(queried, f)
           /\ i' = i + 1
           /\ loginfos' = IF h = "append"
                           THEN Append(loginfos, MakeLoginfo(f, raw))
                           ELSE loginfos
           /\ warnings' = IF h \in { "append", "skip" } THEN warnings
                           ELSE Append(warnings, [kind |-> exc, file |-> f,
                                                  hint |-> h = "skip_hint"])
           /\ raised' = IF h = "abort" THEN "PluginError" ELSE ""
           /\ pc' = IF h = "abort" THEN "raised" ELSE "loop"
    /\ UNCHANGED << repo, tracked, history_limit, files, filesBound, parsed,
                    history_limit_hint, handle >>
    /\ UNCHANGED << sanVars, fnVars, pgVars >>

\* lines 118-167: one iteration of the per-file loop
ProcessFile ==
    /\ pc = "loop"
    /\ i < Len(files)
    /\ LET f   == files[i + 1]
           raw == tracked[f]
           exc == BodyException(raw)
           h   == IF exc = "" THEN "append" ELSE Handler(exc)
       IN  /\ queried' = Append(queried, f)
           /\ i' = i + 1
           /\ loginfos' = IF h = "append"
                           THEN Append(loginfos, MakeLoginfo(f, raw))
                           ELSE loginfos
           /\ warnings' = IF h = "append" THEN warnings
                           ELSE Append(warnings, [kind |-> exc, file |-> f,
                                                  hint |-> h = "skip_hint"])
           /\ raised' = IF h = "abort" THEN "PluginError" ELSE ""
           /\ pc' = IF h = "abort" THEN "raised" ELSE "loop"
    /\ UNCHANGED << repo, tracked, history_limit, files, filesBound, parsed,
                    history_limit_hint, handle >>
    /\ UNCHANGED << sanVars, fnVars, pgVars >>

\* lines 169-186: sort, limit, return
SortLimitReturn ==
    /\ pc = "loop"
    /\ i = Len(files)
    /\ LET r == SortAndLimit(loginfos, history_limit)
       IN  /\ loginfos' = r.loginfos
           /\ history_limit_hint' = r.hint
           /\ handle' \in HandleAtReturn(r.loginfos)
    /\ parsed' = loginfos
    /\ pc' = "returned"
    /\ UNCHANGED << repo, tracked, history_limit, files, filesBound, i,
                    queried, warnings, raised >>
    /\ UNCHANGED << sanVars, fnVars, pgVars >>

Next ==
    \/ \E hl \in Limits : Call(hl)
    \/ OpenRepo
    \/ ProcessFile
    \/ SortLimitReturn

Spec == Init /\ [][Next]_vars

(* ------------------- sanitize_string on bounded inputs ------------------ *)
Alphabet == { "<", ">", "&", "\"", "'", " ", "a", ";", "\\" }

RECURSIVE StringsUpTo(_)
StringsUpTo(n) ==
    IF n = 0 THEN { << >> }
    ELSE LET shorter == StringsUpTo(n - 1)
         IN  shorter \cup { Append(s, c) : s \in shorter, c \in Alphabet }

\* "This commit message contains <html>"
MsgHtml == << "T","h","i","s"," ","c","o","m","m","i","t"," ","m","e","s","s",
              "a","g","e"," ","c","o","n","t","a","i","n","s"," ",
              "<","h","t","m","l",">" >>
\* "This commit message contains &lt;html&gt;"
MsgHtmlRendered ==
           << "T","h","i","s"," ","c","o","m","m","i","t"," ","m","e","s","s",
              "a","g","e"," ","c","o","n","t","a","i","n","s"," ",
              "&","l","t",";","h","t","m","l","&","g","t",";" >>
\* "double quotes" with its quotation marks
MsgQuotes == << "\"","d","o","u","b","l","e"," ","q","u","o","t","e","s","\"" >>
MsgQuotesRendered ==
    EntQuot \o << "d","o","u","b","l","e"," ","q","u","o","t","e","s" >> \o EntQuot

\* r"a \t tab": a backslash and the letter t, not a tab character
MsgBackslashT == << "a", " ", "\\", "t", " ", "t", "a", "b" >>
\* a tab character, then backslash and t, then a newline
MsgPadded == << "\t", " ", "\\", "t", "<", "\n" >>

SanInputs ==
    StringsUpTo(MaxLen) \cup { MsgHtml, MsgQuotes, MsgBackslashT, MsgPadded }

SanInit ==
    /\ repo = "ok"
    /\ tracked = << RawLog(1, "GitCommandError", 0, TsEmpty) >>
    /\ Idle /\ NoFn /\ NoPage
    /\ san_in \in SanInputs
    /\ san_out = << >>
    /\ san_pc = "start"

Sanitize ==
    /\ san_pc = "start"
    /\ san_out' = sanitize_string(san_in)
    /\ san_pc' = "done"
    /\ UNCHANGED san_in
    /\ UNCHANGED << grcVars, fnVars, pgVars >>

SanNext == Sanitize

SanSpec == SanInit /\ [][SanNext]_vars

(* ------------------ models.SUPPORTED_REMOTE_REPOS ----------------------- *)
\* A template is the sequence of its literal pieces and its {placeholders}.
SUPPORTED_REMOTE_REPOS ==
    [github |->
        [hash_url_tpl |-> << "{repo_url}", "/commit/", "{commit_hash}" >>,
         file_remote_url_tpl |->
             << "{repo_url}", "/blob/", "{branch}", "/", "{filepath}" >>],
     gitlab |->
        [hash_url_tpl |-> << "{repo_url}", "/-/commit/", "{commit_hash}" >>,
         file_remote_url_tpl |->
             << "{repo_url}", "/-/blob/", "{branch}", "/", "{filepath}" >>],
     gitea |->
        [hash_url_tpl |-> << "{repo_url}", "/commit/", "{commit_hash}" >>,
         file_remote_url_tpl |->
             << "{repo_url}", "/src/branch/", "{branch}", "/", "{filepath}" >>],
     bitbucket |->
        [hash_url_tpl |-> << "{repo_url}", "/commits/", "{commit_hash}" >>,
         file_remote_url_tpl |->
             << "{repo_url}", "/browse/", "{filepath}", "?at=", "{branch}" >>]]

(* -------------------- git_adapter.get_repo_vendor ----------------------- *)
\* str.lower() on the vendor strings of the model
Lower(s) ==
    CASE s = "GitHub" -> "github"
      [] s = "GitLab" -> "gitlab"
      [] OTHER -> s

\* get_repo_vendor where the discovered repo_name wins a conflict
get_repo_vendor_NameWins(repo_url, repo_name, repo_vendor) ==
    LET name   == Lower(repo_name)
        vendor == Lower(repo_vendor)
        usable == IF name # "" THEN name ELSE vendor
        unset  == vendor # "" /\ vendor \notin DOMAIN SUPPORTED_REMOTE_REPOS
    IN  [resolved |-> usable,
         vendor   |-> IF unset THEN "" ELSE usable,
         log      |-> << >>,
         raised   |-> ""]

\* lines 20-69.  `resolved` is usable_repo_vendor when line 60 is reached,
\* `vendor` the value returned.
get_repo_vendor(repo_url, repo_name, repo_vendor) ==
    LET name   == Lower(repo_name)
        vendor == Lower(repo_vendor)
        usable == CASE name # "" /\ vendor # "" -> vendor
                    [] name # "" /\ vendor = "" -> name
                    [] name = "" /\ vendor # "" -> vendor
                    [] OTHER -> ""
        \* line 61 tests the configured repo_vendor
        unset  == vendor # "" /\ vendor \notin DOMAIN SUPPORTED_REMOTE_REPOS
    IN  [resolved |-> usable,
         vendor   |-> IF unset THEN "" ELSE usable,
         log      |-> (IF repo_url = "" THEN << "info: no repo_url" >> ELSE << >>)
                      \o (IF name = "" THEN << "info: no repo_name" >> ELSE << >>)
                      \o (IF name # "" /\ vendor # "" /\ vendor # name
                          THEN << "warning: repo_vendor differs from repo_name" >>
                          ELSE << >>)
                      \o (IF name # "" /\ vendor = ""
                          THEN << "debug: using repo_name" >> ELSE << >>)
                      \o (IF unset THEN << "info: repo_vendor not supported" >>
                          ELSE << >>),
         raised   |-> ""]

(* ----------------------- plugin.get_repo_vendor ------------------------- *)
\* plugin.py lines 178-213: here the test of line 207 is on the resolved vendor
plugin_get_repo_vendor(url, repo_vendor_configured, repo_name) ==
    LET discovered == Lower(repo_name)
        configured == Lower(repo_vendor_configured)
        resolved   == CASE discovered # "" /\ configured # "" -> configured
                        [] discovered # "" /\ configured = "" -> discovered
                        [] discovered = "" /\ configured # "" -> configured
                        [] OTHER -> ""
        unset      == resolved # "" /\ resolved \notin DOMAIN SUPPORTED_REMOTE_REPOS
    IN  [resolved |-> resolved,
         vendor   |-> IF unset THEN "" ELSE resolved,
         log      |-> (IF url = "" THEN << "info: no repo_url" >> ELSE << >>)
                      \o (IF discovered # "" /\ configured # ""
                             /\ configured # discovered
                          THEN << "warning: repo_vendor differs from repo_name" >>
                          ELSE << >>)
                      \o (IF discovered # "" /\ configured = ""
                          THEN << "debug: using repo_name" >> ELSE << >>)
                      \o (IF unset THEN << "info: repo_vendor not supported" >>
                          ELSE << >>),
         raised   |-> ""]

(* ------------------ get_repo_vendor on bounded inputs ------------------- *)
VendorStrings ==
    { "", "github", "GitHub", "gitlab", "gitea", "bitbucket", "sourcehut",
      "ns/project" }
RepoUrls == { "", "https://github.com/ns/proj" }

VendorInit ==
    /\ repo = "ok"
    /\ tracked = << RawLog(1, "GitCommandError", 0, TsEmpty) >>
    /\ Idle /\ NoSanitize /\ NoPage
    /\ fn_in \in [repo_url : RepoUrls, repo_name : VendorStrings,
                  repo_vendor : VendorStrings]
    /\ fn_out = << >>
    /\ fn_pc = "start"

GetRepoVendor ==
    /\ fn_pc = "start"
    /\ fn_out' = get_repo_vendor(fn_in.repo_url, fn_in.repo_name,
                                 fn_in.repo_vendor)
    /\ fn_pc' = "git_adapter"
    /\ UNCHANGED << fn_in, grcVars, sanVars, pgVars >>

PluginGetRepoVendor ==
    /\ fn_pc = "start"
    /\ fn_out' = plugin_get_repo_vendor(fn_in.repo_url, fn_in.repo_vendor,
                                        fn_in.repo_name)
    /\ fn_pc' = "plugin"
    /\ UNCHANGED << fn_in, grcVars, sanVars, pgVars >>

VendorNext == GetRepoVendor \/ PluginGetRepoVendor

VendorSpec == VendorInit /\ [][VendorNext]_vars

(* ------------------------- str.format on templates ---------------------- *)
Subst(tok, kw) ==
    CASE tok = "{repo_url}" -> kw.repo_url
      [] tok = "{commit_hash}" -> kw.commit_hash
      [] tok = "{branch}" -> kw.branch
      [] tok = "{filepath}" -> kw.filepath
      [] tok = "{linktext}" -> kw.linktext
      [] OTHER -> tok

\* the pieces of the formatted string; a piece that is the empty string adds
\* nothing, and "" is the empty sequence
Format(tpl, kw) ==
    SelectSeq([k \in 1..Len(tpl) |-> Subst(tpl[k], kw)], LAMBDA t : t # "")

(* --------------------------- models.Loginfo ----------------------------- *)
\* lines 65-77 without the test of self.repo_url
Loginfo_get_remote_url_NoUrlTest(self, url_type) ==
    LET url_template ==
            IF self.repo_vendor \in DOMAIN SUPPORTED_REMOTE_REPOS
            THEN SUPPORTED_REMOTE_REPOS[self.repo_vendor][url_type]
            ELSE << >>
    IN  Format(url_template,
               [filepath |-> self.filepath, repo_url |-> self.repo_url,
                commit_hash |-> self.hash_full, branch |-> self.branch])

\* lines 65-77: SUPPORTED_REMOTE_REPOS.get(vendor, {}).get(url_type, "")
Loginfo_get_remote_url(self, url_type) ==
    LET url_template ==
            IF self.repo_vendor \in DOMAIN SUPPORTED_REMOTE_REPOS
            THEN SUPPORTED_REMOTE_REPOS[self.repo_vendor][url_type]
            ELSE << >>
    IN  IF self.repo_url # ""
        THEN Format(url_template,
                    [filepath |-> self.filepath, repo_url |-> self.repo_url,
                     commit_hash |-> self.hash_full, branch |-> self.branch])
        ELSE << >>

\* lines 79-87
get_hash_url(self) == Loginfo_get_remote_url(self, "hash_url_tpl")
get_file_remote_url(self) == Loginfo_get_remote_url(self, "file_remote_url_tpl")

(* --------------------- plugin.get_remote_repo_urls ---------------------- *)
\* plugin.py lines 38-55 with gitea given the file template of github
PLUGIN_SUPPORTED_REMOTE_REPOS_GiteaBlob ==
    [github |->
        [hash_url_tpl |-> << "[", "{linktext}", "](", "{repo_url}", "/commit/",
                             "{commit_hash}", ")" >>,
         filepath_url_tpl |-> << "[", "{linktext}", "](", "{repo_url}", "/blob/",
                                 "{branch}", "/", "{filepath}", ")" >>],
     gitlab |->
        [hash_url_tpl |-> << "[", "{linktext}", "](", "{repo_url}", "/-/commit/",
                             "{commit_hash}", ")" >>,
         filepath_url_tpl |-> << "[", "{linktext}", "](", "{repo_url}", "/-/blob/",
                                 "{branch}", "/", "{filepath}", ")" >>],
     gitea |->
        [hash_url_tpl |-> << "[", "{linktext}", "](", "{repo_url}", "/commit/",
                             "{commit_hash}", ")" >>,
         filepath_url_tpl |-> << "[", "{linktext}", "](", "{repo_url}", "/blob/",
                                 "{branch}", "/", "{filepath}", ")" >>],
     bitbucket |->
        [hash_url_tpl |-> << "[", "{linktext}", "](", "{repo_url}", "/commits/",
                             "{commit_hash}", ")" >>,
         filepath_url_tpl |-> << "[", "{linktext}", "](", "{repo_url}", "/browse/",
                                 "{filepath}", "?at=", "{branch}", ")" >>]]

\* plugin.py lines 38-55
PLUGIN_SUPPORTED_REMOTE_REPOS ==
    [github |->
        [hash_url_tpl |-> << "[", "{linktext}", "](", "{repo_url}", "/commit/",
                             "{commit_hash}", ")" >>,
         filepath_url_tpl |-> << "[", "{linktext}", "](", "{repo_url}", "/blob/",
                                 "{branch}", "/", "{filepath}", ")" >>],
     gitlab |->
        [hash_url_tpl |-> << "[", "{linktext}", "](", "{repo_url}", "/-/commit/",
                             "{commit_hash}", ")" >>,
         filepath_url_tpl |-> << "[", "{linktext}", "](", "{repo_url}", "/-/blob/",
                                 "{branch}", "/", "{filepath}", ")" >>],
     gitea |->
        [hash_url_tpl |-> << "[", "{linktext}", "](", "{repo_url}", "/commit/",
                             "{commit_hash}", ")" >>,
         filepath_url_tpl |-> << "[", "{linktext}", "](", "{repo_url}",
                                 "/src/branch/", "{branch}", "/", "{filepath}",
                                 ")" >>],
     bitbucket |->
        [hash_url_tpl |-> << "[", "{linktext}", "](", "{repo_url}", "/commits/",
                             "{commit_hash}", ")" >>,
         filepath_url_tpl |-> << "[", "{linktext}", "](", "{repo_url}", "/browse/",
                                 "{filepath}", "?at=", "{branch}", ")" >>]]

\* plugin.py lines 70-127 with the full hash as the plain commit cell
get_remote_repo_urls_FullHash(repo_url, repo_vendor, branch, commit_hash, commit_hash_short, filepath) ==
    IF repo_url # "" /\ repo_vendor \in DOMAIN PLUGIN_SUPPORTED_REMOTE_REPOS
    THEN [commit_hash_url |->
              Format(PLUGIN_SUPPORTED_REMOTE_REPOS[repo_vendor].hash_url_tpl,
                     [linktext |-> commit_hash_short,
                      commit_hash |-> commit_hash, repo_url |-> repo_url]),
          filepath_url |->
              Format(PLUGIN_SUPPORTED_REMOTE_REPOS[repo_vendor].filepath_url_tpl,
                     [linktext |-> filepath, filepath |-> filepath,
                      repo_url |-> repo_url, branch |-> branch]),
          raised |-> ""]
    ELSE [commit_hash_url |-> << commit_hash >>,
          filepath_url |-> << filepath >>, raised |-> ""]

\* plugin.py lines 70-127; SUPPORTED_REMOTE_REPOS[repo_vendor] raises KeyError
\* for a vendor that is not a key
get_remote_repo_urls(repo_url, repo_vendor, branch, commit_hash, commit_hash_short, filepath) ==
    IF repo_url # "" /\ repo_vendor # ""
    THEN IF repo_vendor \in DOMAIN PLUGIN_SUPPORTED_REMOTE_REPOS
         THEN [commit_hash_url |->
                   Format(PLUGIN_SUPPORTED_REMOTE_REPOS[repo_vendor].hash_url_tpl,
                          [linktext |-> commit_hash_short,
                           commit_hash |-> commit_hash, repo_url |-> repo_url]),
               filepath_url |->
                   Format(PLUGIN_SUPPORTED_REMOTE_REPOS[repo_vendor].filepath_url_tpl,
                          [linktext |-> filepath, filepath |-> filepath,
                           repo_url |-> repo_url, branch |-> branch]),
               raised |-> ""]
         ELSE [commit_hash_url |-> << >>, filepath_url |-> << >>,
               raised |-> "KeyError"]
    ELSE [commit_hash_url |-> << commit_hash_short >>,
          filepath_url |-> << filepath >>, raised |-> ""]

(* ------------------- remote URLs on bounded inputs ---------------------- *)
UrlVendors == { "", "github", "gitlab", "gitea", "bitbucket", "sourcehut" }
UrlRepoUrls == { "", "https://github.com/ns/proj" }
UrlBranches == { "main", "dev" }
UrlFilepaths == { "docs/index.md", "README.md" }
\* a full hash and its abbreviation
UrlHashes == { << "abcdef1234567890", "abcdef1" >>, << "0123456789abcdef", "0123456" >> }

UrlInit ==
    /\ repo = "ok"
    /\ tracked = << RawLog(1, "GitCommandError", 0, TsEmpty) >>
    /\ Idle /\ NoSanitize /\ NoPage
    /\ \E v \in UrlVendors, u \in UrlRepoUrls, b \in UrlBranches,
          f \in UrlFilepaths, h \in UrlHashes :
          fn_in = [repo_vendor |-> v, repo_url |-> u, branch |-> b,
                   filepath |-> f, hash_full |-> h[1], hash_short |-> h[2]]
    /\ fn_out = << >>
    /\ fn_pc = "start"

\* the two properties of one Loginfo
LoginfoUrls ==
    /\ fn_pc = "start"
    /\ fn_out' = [hash_url |-> get_hash_url(fn_in),
                  file_remote_url |-> get_file_remote_url(fn_in)]
    /\ fn_pc' = "models"
    /\ UNCHANGED << fn_in, grcVars, sanVars, pgVars >>

GetRemoteRepoUrls ==
    /\ fn_pc = "start"
    /\ fn_out' = get_remote_repo_urls(fn_in.repo_url, fn_in.repo_vendor,
                                      fn_in.branch, fn_in.hash_full,
                                      fn_in.hash_short, fn_in.filepath)
    /\ fn_pc' = "plugin"
    /\ UNCHANGED << fn_in, grcVars, sanVars, pgVars >>

UrlNext == LoginfoUrls \/ GetRemoteRepoUrls

UrlSpec == UrlInit /\ [][UrlNext]_vars

(* ----------------------- presentation.render_table ---------------------- *)
NoChangesMessage == "No recent changes found."

\* the keys of column_headers with one more identifier let through
TableFeatures_WithInvalid ==
    { "filepath", "timestamp", "commit_hash_link", "author", "message",
      "file_link_git_repo", "page_path_link", "invalid_feature" }

TableFeatures ==
    { "filepath", "timestamp", "commit_hash_link", "author", "message",
      "file_link_git_repo", "page_path_link" }

\* presentation.py lines 34-43
column_headers(limit_to_docs_dir) ==
    [filepath |-> "File", timestamp |-> "Date", commit_hash_link |-> "Commit",
     author |-> "Author", message |-> "Description",
     file_link_git_repo |-> "File (Git)",
     page_path_link |-> IF limit_to_docs_dir THEN "Page" ELSE "Page/File"]

\* one cell of a data row, as a sequence of text pieces
TableCell(entry, feature, timestamp_format) ==
    CASE feature = "filepath" -> << entry.filepath >>
      [] feature = "timestamp" -> << "strftime", timestamp_format, entry.timestamp >>
      [] feature = "commit_hash_link" ->
            << "[", entry.hash_short, "](" >> \o get_hash_url(entry) \o << ")" >>
      [] feature = "author" -> << entry.author >>
      [] feature = "message" -> << entry.message >>
      [] feature = "file_link_git_repo" ->
            << "[", entry.filepath, "](" >> \o get_file_remote_url(entry) \o << ")" >>
      [] feature = "page_path_link" ->
            << "[", entry.filepath, "](", entry.filepath, ")" >>

\* the rendered template: header row, separator row, one row per entry in the
\* order given, each row a sequence of cells
RenderTemplate(context) ==
    LET n == Len(context.features)
    IN  << [k \in 1..n |-> << context.column_headers[context.features[k]] >>],
           [k \in 1..n |-> << "---" >>] >>
        \o [e \in 1..Len(context.loginfos) |->
               [k \in 1..n |-> TableCell(context.loginfos[e], context.features[k],
                                         context.timestamp_format)]]

\* lines 17-55 without the test of the empty list
render_table_NoEmptyTest(entries, table_features, timestamp_format, limit_to_docs_dir) ==
    RenderTemplate([loginfos |-> entries, features |-> table_features,
                    timestamp_format |-> timestamp_format,
                    column_headers |-> column_headers(limit_to_docs_dir)])

\* lines 17-55; the message is a text of one line holding one cell
render_table(entries, table_features, timestamp_format, limit_to_docs_dir) ==
    IF entries = << >>
    THEN << << << NoChangesMessage >> >> >>
    ELSE RenderTemplate([loginfos |-> entries, features |-> table_features,
                         timestamp_format |-> timestamp_format,
                         column_headers |-> column_headers(limit_to_docs_dir)])

(* ------------------- render_table on bounded inputs --------------------- *)
RECURSIVE FeatureLists(_)
FeatureLists(n) ==
    IF n = 0 THEN { << >> }
    ELSE FeatureLists(n - 1)
         \cup { Append(fl, f) : fl \in { x \in FeatureLists(n - 1) : Len(x) = n - 1 },
                                f \in TableFeatures }

TimestampFormats == { "%Y-%m-%d %H:%M:%S", "%d.%m.%Y" }

RenderEntry(k) ==
    [filepath |-> IF k = 1 THEN "docs/index.md" ELSE "README.md",
     timestamp |-> IF k = 1 THEN "t2" ELSE "t1",
     hash_short |-> IF k = 1 THEN "abcdef1" ELSE "0123456",
     hash_full |-> IF k = 1 THEN "abcdef1234567890" ELSE "0123456789abcdef",
     author |-> "Ada", message |-> "msg",
     repo_url |-> "https://github.com/ns/proj", repo_vendor |-> "github",
     branch |-> "main"]

RenderEntryLists ==
    { << >>, << RenderEntry(1) >>, << RenderEntry(1), RenderEntry(2) >> }

RenderInit ==
    /\ repo = "ok"
    /\ tracked = << RawLog(1, "GitCommandError", 0, TsEmpty) >>
    /\ Idle /\ NoSanitize /\ NoPage
    /\ \E ls \in RenderEntryLists, fl \in FeatureLists(MaxFeatures),
          tf \in TimestampFormats, ld \in BOOLEAN :
          fn_in = [loginfos |-> ls, table_features |-> fl,
                   timestamp_format |-> tf, limit_to_docs_dir |-> ld]
    /\ fn_out = << >>
    /\ fn_pc = "start"

RenderTable ==
    /\ fn_pc = "start"
    /\ fn_out' = render_table(fn_in.loginfos, fn_in.table_features,
                              fn_in.timestamp_format, fn_in.limit_to_docs_dir)
    /\ fn_pc' = "rendered"
    /\ UNCHANGED << fn_in, grcVars, sanVars, pgVars >>

RenderNext == RenderTable

RenderSpec == RenderInit /\ [][RenderNext]_vars

(* ------------------ plugin.py: the page-markdown hook ------------------- *)
\* Texts of this part are sequences of symbols; the marker is one symbol, as
\* none of its characters is touched by strip or html.escape.
MARKER == "{{ latest_changes }}"

DocsDir == "docs"

\* A tracked file: its directory, its path and what `git log -1 <path>` gives
\*   "ok"              five fields, committed at time 1
\*   "marker"          five fields, committed at time 2, the subject holds
\*                     the marker text
\*   "GitCommandError" git.log raises GitCommandError
\*   "empty"           empty output: the file has no commit yet
\*   "OSError"         git.log raises another exception
PageLogKinds == { "ok", "marker", "GitCommandError", "empty", "OSError" }

PageFile(k, in_docs, kind) ==
    [path |-> IF in_docs THEN DocsDir \o "/f" \o ToString(k) \o ".md"
              ELSE "f" \o ToString(k) \o ".md",
     dir |-> IF in_docs THEN DocsDir ELSE ".",
     kind |-> kind]

RECURSIVE PageFileLists(_)
PageFileLists(n) ==
    IF n = 0 THEN { << >> }
    ELSE PageFileLists(n - 1)
         \cup { Append(fs, PageFile(n, d, kd)) :
                    fs \in { x \in PageFileLists(n - 1) : Len(x) = n - 1 },
                    d \in BOOLEAN, kd \in PageLogKinds }

\* Repo(search_parent_directories=True) and repo.active_branch (lines 219-237)
PageRepos ==
    { [state |-> "absent", files |-> << >>],
      [state |-> "corrupt", files |-> << >>] }
    \cup { [state |-> "ok", files |-> fs] : fs \in PageFileLists(MaxPageFiles) }

PageBranch == "main"

\* --date=format:%Y-%m-%d %H:%M:%S; the texts order as the times do
TsText(t) == IF t = 1 THEN "2023-11-16 12:55:07" ELSE "2023-11-17 14:20:10"

\* raw %cd %h %H %an %s of a file's last commit
PageRawLog(file) ==
    IF file.kind = "marker"
    THEN [ts |-> 2, hash_short |-> << "84b1b0d" >>,
          hash_full |-> << "84b1b0d0123456789" >>, author |-> << "Jane", " " >>,
          subject |-> << "Add", MARKER, "<", " " >>]
    ELSE [ts |-> 1, hash_short |-> << "4401df1" >>,
          hash_full |-> << "4401df10123456789" >>, author |-> << "John" >>,
          subject |-> << "Fixed", "typo" >>]

\* git ls-files <pathspec> run in the working tree: "." lists every tracked
\* file, a directory those below it
ls_files_AllFiles(tracked_files, pathspec) == tracked_files

ls_files(tracked_files, pathspec) ==
    SelectSeq(tracked_files, LAMBDA f : pathspec = "." \/ f.dir = pathspec)

\* "".split("\n") is [""], and git log refuses the empty pathspec
SplitLines(listed) ==
    IF listed = << >>
    THEN << [path |-> "", dir |-> ".", kind |-> "GitCommandError"] >>
    ELSE listed

\* one text out of a sequence of texts: the first symbol of a hash
OneSymbol(s) == IF s = << >> THEN "" ELSE s[1]

\* plugin.py lines 260-293: the row of one file
PageRow(file, repo_url, repo_vendor) ==
    LET raw == PageRawLog(file)
        hash_short == sanitize_string(raw.hash_short)
        hash_full == sanitize_string(raw.hash_full)
        repo_urls == get_remote_repo_urls(repo_url, repo_vendor, PageBranch,
                                          OneSymbol(hash_full),
                                          OneSymbol(hash_short), file.path)
    IN  [Filepath |-> repo_urls.filepath_url,
         Timestamp |-> raw.ts,
         Author |-> sanitize_string(raw.author),
         Message |-> sanitize_string(raw.subject),
         Commit |-> repo_urls.commit_hash_url,
         path |-> file.path]

\* plugin.py lines 244-307: the loop over the files
RECURSIVE PageLoop(_, _, _, _)
PageLoop(fs, repo_url, repo_vendor, acc) ==
    IF fs = << >> THEN acc
    ELSE LET file == Head(fs)
             asked == [acc EXCEPT !.queries = Append(@, file.path)]
         IN  CASE file.kind = "GitCommandError" ->
                    PageLoop(Tail(fs), repo_url, repo_vendor,
                             [asked EXCEPT !.warnings = Append(@, "GitCommandError")])
               [] file.kind = "empty" ->
                    PageLoop(Tail(fs), repo_url, repo_vendor,
                             [asked EXCEPT !.warnings = Append(@, "IndexError")])
               [] file.kind = "OSError" ->
                    [asked EXCEPT !.raised = "PluginError",
                                  !.warnings = Append(@, "OSError")]
               [] OTHER ->
                    PageLoop(Tail(fs), repo_url, repo_vendor,
                             [asked EXCEPT !.rows =
                                 Append(@, PageRow(file, repo_url, repo_vendor))])

\* sorted(loginfos, key=itemgetter("Timestamp"), reverse=True)
PageInsertDesc(sorted, e) ==
    LET p == Cardinality({ k \in 1..Len(sorted) : sorted[k].Timestamp >= e.Timestamp })
    IN  SubSeq(sorted, 1, p) \o << e >> \o SubSeq(sorted, p + 1, Len(sorted))

RECURSIVE PageSortDesc(_)
PageSortDesc(s) ==
    IF s = << >> THEN << >>
    ELSE PageInsertDesc(PageSortDesc(SubSeq(s, 1, Len(s) - 1)), s[Len(s)])

\* plugin.py lines 130-163
ColSeparator == " | "

RowLine(cells) ==
    LET RECURSIVE Join(_)
        Join(k) == IF k > Len(cells) THEN << >>
                   ELSE cells[k] \o << ColSeparator >> \o Join(k + 1)
    IN  << ColSeparator >> \o Join(1)

RowCells(row) ==
    << row.Filepath, << TsText(row.Timestamp) >>, row.Author, row.Message,
       row.Commit >>

plugin_render_table(rows) ==
    LET RECURSIVE Lines(_)
        Lines(k) == IF k > Len(rows) THEN << >>
                    ELSE << "\n" >> \o RowLine(RowCells(rows[k])) \o Lines(k + 1)
    IN  IF rows = << >> THEN << >>
        ELSE RowLine(<< << "Filepath" >>, << "Timestamp" >>, << "Author" >>,
                        << "Message" >>, << "Commit" >> >>)
             \o << "\n" >>
             \o RowLine(<< << "--------" >>, << "---------" >>, << "------" >>,
                           << "-------" >>, << "------" >> >>)
             \o Lines(1)

\* plugin.py lines 311-320
PagePStart == "\n<p style=\"margin-bottom: 1em; margin-top: 1em; padding-top: .5em; font-style: italic; font-size: smaller;\">"

PageHint(limit) ==
    << PagePStart, "Only", "the", "most", "recent" >> \o Pluralized(limit)
        \o << "displayed.", "</p>" >>

\* plugin.py lines 216-322
plugin_get_recent_changes(env, repo_url, repo_vendor, limit_to_docs_dir, hl) ==
    LET none == [rows |-> << >>, queries |-> << >>, warnings |-> << >>,
                 raised |-> "", listed |-> << >>, scope |-> "", text |-> << >>]
    IN  CASE env.state = "absent" ->
                [none EXCEPT !.warnings = << "InvalidGitRepositoryError" >>,
                             !.text = << "Warning: ", "InvalidGitRepositoryError" >>]
          [] env.state = "corrupt" ->
                [none EXCEPT !.warnings = << "Exception" >>,
                             !.raised = "PluginError"]
          [] OTHER ->
                LET listed == ls_files(env.files, limit_to_docs_dir)
                    looped == PageLoop(SplitLines(listed), repo_url, repo_vendor,
                                       [none EXCEPT !.listed = listed,
                                                    !.scope = limit_to_docs_dir])
                    sorted == PageSortDesc(looped.rows)
                    limit  == EffectiveLimit(hl)
                    cut    == limit # 0 /\ Len(sorted) > limit
                    shown  == IF cut THEN SubSeq(sorted, 1, limit) ELSE sorted
                IN  IF looped.raised # "" THEN looped
                    ELSE [looped EXCEPT
                            !.rows = shown,
                            !.text = plugin_render_table(shown)
                                     \o (IF cut THEN PageHint(limit) ELSE << >>)]

\* line 390 with str.replace(marker, latest_changes, 1)
ReplaceMarkerFirst(markdown, latest_changes) ==
    LET first == CHOOSE k \in 1..Len(markdown) + 1 :
                    /\ k <= Len(markdown) => markdown[k] = MARKER
                    /\ \A j \in 1..(k - 1) : markdown[j] # MARKER
    IN  IF first > Len(markdown) THEN markdown
        ELSE SubSeq(markdown, 1, first - 1) \o latest_changes
             \o SubSeq(markdown, first + 1, Len(markdown))

\* line 390: markdown.replace(marker, latest_changes)
ReplaceMarker(markdown, latest_changes) == Replace(markdown, MARKER, latest_changes)

\* plugin.py lines 356-392 without the test for the marker
on_page_markdown_AlwaysQuery(self, markdown, env) ==
    LET idle == [none |-> FALSE, text |-> markdown, latest_changes |-> << >>,
                 called |-> FALSE, rows |-> << >>, queries |-> << >>,
                 listed |-> << >>, scope |-> "", warnings |-> << >>,
                 raised |-> ""]
        repo_vendor == plugin_get_repo_vendor(self.repo_url, self.repo_vendor,
                                              self.repo_name).vendor
        scope == IF self.limit_to_docs_dir THEN DocsDir ELSE "."
        got == plugin_get_recent_changes(env, self.repo_url, repo_vendor, scope,
                                         self.history_limit)
    IN  IF ~self.enabled_on_serve /\ self.is_serve
        THEN [idle EXCEPT !.none = TRUE, !.text = << >>]
        ELSE [idle EXCEPT
                     !.called = TRUE, !.rows = got.rows,
                     !.queries = got.queries, !.listed = got.listed,
                     !.scope = got.scope, !.warnings = got.warnings,
                     !.raised = got.raised,
                     !.latest_changes = got.text,
                     !.text = IF got.raised # "" THEN << >>
                              ELSE ReplaceMarker(markdown, got.text)]

\* plugin.py lines 356-392; `none` says that the hook returned None, `text` is
\* the returned text otherwise
on_page_markdown(self, markdown, env) ==
    LET idle == [none |-> FALSE, text |-> markdown, latest_changes |-> << >>,
                 called |-> FALSE, rows |-> << >>, queries |-> << >>,
                 listed |-> << >>, scope |-> "", warnings |-> << >>,
                 raised |-> ""]
        repo_vendor == plugin_get_repo_vendor(self.repo_url, self.repo_vendor,
                                              self.repo_name).vendor
        scope == IF self.limit_to_docs_dir THEN DocsDir ELSE "."
        got == plugin_get_recent_changes(env, self.repo_url, repo_vendor, scope,
                                         self.history_limit)
    IN  IF ~self.enabled_on_serve /\ self.is_serve
        THEN [idle EXCEPT !.none = TRUE, !.text = << >>]
        ELSE IF \E k \in 1..Len(markdown) : markdown[k] = MARKER
             THEN [idle EXCEPT
                     !.called = TRUE, !.rows = got.rows,
                     !.queries = got.queries, !.listed = got.listed,
                     !.scope = got.scope, !.warnings = got.warnings,
                     !.raised = got.raised,
                     !.latest_changes = got.text,
                     !.text = IF got.raised # "" THEN << >>
                              ELSE ReplaceMarker(markdown, got.text)]
             ELSE idle

(* ----------------------- the hooks of one build ------------------------- *)
Commands == { "build", "gh-deploy", "serve" }

\* the page sources
Pages ==
    { << "# Title", "text" >>,
      << "# Title", MARKER, "text" >>,
      << MARKER, "text", MARKER >> }

\* mkdocs.yml: repo_url, repo_name and the plugin's repo_vendor
RemoteConfigs ==
    { [repo_url |-> "", repo_name |-> "", repo_vendor |-> ""],
      [repo_url |-> "https://github.com/ns/proj", repo_name |-> "GitHub",
       repo_vendor |-> ""] }

PageLimits == { -1, 1 }

\* GitLatestChangesPlugin.__init__ and the loaded configuration
PageInit ==
    /\ repo = "ok"
    /\ tracked = << RawLog(1, "GitCommandError", 0, TsEmpty) >>
    /\ Idle /\ NoSanitize /\ NoFn
    /\ \E rc \in RemoteConfigs, es \in BOOLEAN, ld \in BOOLEAN, hl \in PageLimits :
          plugin = [pc |-> "constructed", is_serve |-> FALSE, command |-> "",
                    enabled_on_serve |-> es, limit_to_docs_dir |-> ld,
                    history_limit |-> hl, repo_vendor |-> rc.repo_vendor,
                    repo_url |-> rc.repo_url, repo_name |-> rc.repo_name,
                    log |-> << >>]
    /\ docrepo \in PageRepos
    /\ page = << >>

\* lines 344-347 with every command but "build" taken as serving
OnStartup_NotBuild(command) ==
    /\ plugin.pc = "constructed"
    /\ plugin' = [plugin EXCEPT !.pc = "started", !.command = command,
                                !.is_serve = (command # "build")]
    /\ UNCHANGED << docrepo, page, grcVars, sanVars, fnVars >>

\* plugin.py lines 344-347
OnStartup(command) ==
    /\ plugin.pc = "constructed"
    /\ plugin' = [plugin EXCEPT !.pc = "started", !.command = command,
                                !.is_serve = (command = "serve")]
    /\ UNCHANGED << docrepo, page, grcVars, sanVars, fnVars >>

\* plugin.py lines 349-354
OnConfig ==
    /\ plugin.pc = "started"
    /\ plugin' = [plugin EXCEPT
                    !.pc = "configured",
                    !.log = IF ~plugin.enabled_on_serve /\ plugin.is_serve
                            THEN << "info: plugin deactivated during serve" >>
                            ELSE << >>]
    /\ UNCHANGED << docrepo, page, grcVars, sanVars, fnVars >>

\* plugin.py lines 356-392
OnPageMarkdown(markdown) ==
    /\ plugin.pc = "configured"
    /\ page' = [markdown |-> markdown] @@ on_page_markdown(plugin, markdown, docrepo)
    /\ plugin' = [plugin EXCEPT !.pc = "done"]
    /\ UNCHANGED << docrepo, grcVars, sanVars, fnVars >>

PageNext ==
    \/ \E command \in Commands : OnStartup(command)
    \/ OnConfig
    \/ \E markdown \in Pages : OnPageMarkdown(markdown)

PageSpec == PageInit /\ [][PageNext]_vars

(* ------------------ helpers.validate_timestamp_format ------------------- *)
\* helpers.py line 18: the character class of the regular expression
Directives ==
    { "a", "A", "w", "d", "b", "B", "m", "y", "Y", "H", "I", "p", "M", "S",
      "f", "z", "j", "U", "W", "c", "x", "X", "%" }

\* re.search(r"%[aAwdbBmyYHIpMSfzjUWcxX%]", value)
HasDirective(value) ==
    \E k \in 1..(Len(value) - 1) : value[k] = "%" /\ value[k + 1] \in Directives

\* a lone surrogate code point, which cannot be encoded for the C library
Surrogate == "<U+D800>"

\* the conversions every C library's strftime knows (Python adds %f and %z)
LibcDirectives == Directives \cup { "Z" }

\* a "%" that does not start a conversion of LibcDirectives, reading the
\* string from the left as strftime does
RECURSIVE HasUnknownConversion(_)
HasUnknownConversion(value) ==
    IF value = << >> THEN FALSE
    ELSE IF Head(value) # "%" THEN HasUnknownConversion(Tail(value))
    ELSE IF Len(value) = 1 THEN TRUE
    ELSE IF value[2] \in LibcDirectives
         THEN HasUnknownConversion(SubSeq(value, 3, Len(value)))
         ELSE TRUE

\* datetime.now().strftime(value) raises ValueError: always for a surrogate
\* (UnicodeEncodeError is a ValueError); for an unknown conversion only where
\* the platform's C library rejects it (`strict`), elsewhere it is copied
StrftimeRaises(value, strict) ==
    \/ \E k \in 1..Len(value) : value[k] = Surrogate
    \/ strict /\ HasUnknownConversion(value)

\* lines 11-28 without the search for a directive
validate_timestamp_format_NoSearch(value, strict) ==
    IF StrftimeRaises(value, strict)
    THEN [value |-> << >>, raised |-> "ValueError"]
    ELSE [value |-> value, raised |-> ""]

\* helpers.py lines 11-28
validate_timestamp_format(value, strict) ==
    IF ~HasDirective(value) THEN [value |-> << >>, raised |-> "ValueError"]
    ELSE IF StrftimeRaises(value, strict)
         THEN [value |-> << >>, raised |-> "ValueError"]
         ELSE [value |-> value, raised |-> ""]

(* --------------------- configuration, then the pages -------------------- *)
MaxFmtLen == 3

FmtAlphabet == { "%", "Y", "i", "-", Surrogate }

RECURSIVE FmtStrings(_)
FmtStrings(n) ==
    IF n = 0 THEN { << >> }
    ELSE FmtStrings(n - 1)
         \cup { Append(s, c) : s \in { x \in FmtStrings(n - 1) : Len(x) = n - 1 },
                               c \in FmtAlphabet }

\* tests/test_mkdocs_git_latest_changes_plugin.py, test_timestamp_format_config
FmtInvalid == << "%", "i", "n", "v", "a", "l", "i", "d", "%" >>
FmtCustom == << "%", "d", ".", "%", "m", ".", "%", "Y" >>

ConfigFormats == FmtStrings(MaxFmtLen) \cup { FmtInvalid, FmtCustom }

\* table_features as written in mkdocs.yml, recognized or not
ConfiguredFeatures == { "filepath", "timestamp", "invalid_feature" }

RECURSIVE ConfigFeatureLists(_)
ConfigFeatureLists(n) ==
    IF n = 0 THEN { << >> }
    ELSE ConfigFeatureLists(n - 1)
         \cup { Append(fl, f) :
                    fl \in { x \in ConfigFeatureLists(n - 1) : Len(x) = n - 1 },
                    f \in ConfiguredFeatures }

\* validation of table_features against the closed set
ValidateTableFeatures(table_features) ==
    IF \A k \in 1..Len(table_features) : table_features[k] \in TableFeatures
    THEN "" ELSE "ValidationError"

ConfigInit ==
    /\ repo = "ok"
    /\ tracked = << RawLog(1, "GitCommandError", 0, TsEmpty) >>
    /\ Idle /\ NoSanitize /\ NoFn
    /\ \E tf \in ConfigFormats, fl \in ConfigFeatureLists(MaxFeatures),
          strict \in BOOLEAN :
          plugin = [pc |-> "loaded", timestamp_format |-> tf,
                    table_features |-> fl, strict_libc |-> strict,
                    validated |-> [value |-> << >>, raised |-> ""],
                    features_error |-> "", returncode |-> -1]
    /\ docrepo = << >>
    /\ page = [queried |-> FALSE, rendered |-> FALSE]

\* the configuration stage: both options are validated before any page
LoadConfig ==
    /\ plugin.pc = "loaded"
    /\ LET v == validate_timestamp_format(plugin.timestamp_format,
                                          plugin.strict_libc)
           fe == ValidateTableFeatures(plugin.table_features)
           ok == v.raised = "" /\ fe = ""
       IN  plugin' = [plugin EXCEPT !.pc = IF ok THEN "configured" ELSE "aborted",
                                    !.validated = v,
                                    !.features_error = fe,
                                    !.returncode = IF ok THEN -1 ELSE 1]
    /\ UNCHANGED << docrepo, page, grcVars, sanVars, fnVars >>

\* the page stage: the history query and the table renderer
BuildPages ==
    /\ plugin.pc = "configured"
    /\ page' = [queried |-> TRUE, rendered |-> TRUE]
    /\ plugin' = [plugin EXCEPT !.pc = "built", !.returncode = 0]
    /\ UNCHANGED << docrepo, grcVars, sanVars, fnVars >>

ConfigNext == LoadConfig \/ BuildPages

ConfigSpec == ConfigInit /\ [][ConfigNext]_vars

(* -------------------------- helpers.get_rel_path ------------------------ *)
\* A resolved path is the sequence of its components below the root.
MaxDepth == 3

PathNames == { "docs", "sub", "page.md" }

RECURSIVE PathsOfDepth(_)
PathsOfDepth(n) ==
    IF n = 0 THEN { << >> }
    ELSE { Append(q, c) : q \in PathsOfDepth(n - 1), c \in PathNames }

ResolvedPaths == UNION { PathsOfDepth(n) : n \in 1..MaxDepth }

\* Path.parent and Path.name
PathParent(q) == IF q = << >> THEN << >> ELSE SubSeq(q, 1, Len(q) - 1)
PathName(q) == IF q = << >> THEN "" ELSE q[Len(q)]

IsPrefix(d, q) == Len(d) <= Len(q) /\ SubSeq(q, 1, Len(d)) = d

\* PurePath.relative_to(other): the rest of the path below `other`, "." when
\* nothing is left, ValueError when the path is not below `other`
RelativeTo(q, other) ==
    IF ~IsPrefix(other, q) THEN [parts |-> << >>, raised |-> "ValueError"]
    ELSE IF Len(q) = Len(other) THEN [parts |-> << "." >>, raised |-> ""]
    ELSE [parts |-> SubSeq(q, Len(other) + 1, Len(q)), raised |-> ""]

\* helpers.py lines 31-53; the result is the sequence of the components that
\* as_posix joins with "/", the empty sequence being the empty string
get_rel_path(src_path, dest_path) ==
    LET dest_path_dir == PathParent(dest_path)
        src_path_dir == PathParent(src_path)
        is_same_dir == dest_path_dir = src_path_dir
        rel == RelativeTo(dest_path, src_path_dir)
    IN  IF is_same_dir THEN << PathName(dest_path) >>
        ELSE IF rel.raised = "ValueError" THEN << >>
        ELSE rel.parts

RelPathInit ==
    /\ repo = "ok"
    /\ tracked = << RawLog(1, "GitCommandError", 0, TsEmpty) >>
    /\ Idle /\ NoSanitize /\ NoPage
    /\ \E s \in ResolvedPaths, t \in ResolvedPaths :
          fn_in = [src_path |-> s, dest_path |-> t]
    /\ fn_out = << >>
    /\ fn_pc = "start"

\* models.py lines 89-95: Loginfo.get_file_local_url
GetRelPath ==
    /\ fn_pc = "start"
    /\ fn_out' = get_rel_path(fn_in.src_path, fn_in.dest_path)
    /\ fn_pc' = "rel_path"
    /\ UNCHANGED << fn_in, grcVars, sanVars, pgVars >>

RelPathNext == GetRelPath

RelPathSpec == RelPathInit /\ [][RelPathNext]_vars

(* ------------- get_recent_changes, invoked once per page --------------- *)
MaxCalls == 2

\* the raw logs of the repositories of this part: a failing command, an
\* unexpected error, and commits at two times
RenderRawLogsAt(f) ==
    { RawLog(f, "GitCommandError", 0, TsEmpty), RawLog(f, "OSError", 0, TsEmpty),
      RawLog(f, "", NumFields, TsOffset(1, 0)),
      RawLog(f, "", NumFields, TsOffset(MaxTime, 0)) }

RECURSIVE RenderEnumerations(_)
RenderEnumerations(n) ==
    IF n = 0 THEN { << >> }
    ELSE { Append(s, r) : s \in RenderEnumerations(n - 1), r \in RenderRawLogsAt(n) }

RenderRepositories == UNION { RenderEnumerations(n) : n \in 1..MaxFiles }

\* lines 72-117 with the entry list kept in a place that outlives the call
NewActivation_SharedList(hl) ==
    /\ pc' = "open"
    /\ history_limit' = hl
    /\ files' = << >> /\ filesBound' = FALSE /\ i' = 0
    /\ loginfos' = loginfos /\ parsed' = << >> /\ history_limit_hint' = << >>
    /\ queried' = << >> /\ warnings' = << >> /\ raised' = ""
    /\ handle' = "none"

\* lines 72-117: every name of get_recent_changes is a local of the call, and
\* `loginfos = []` makes a new list
NewActivation(hl) ==
    /\ pc' = "open"
    /\ history_limit' = hl
    /\ files' = << >> /\ filesBound' = FALSE /\ i' = 0
    /\ loginfos' = << >> /\ parsed' = << >> /\ history_limit_hint' = << >>
    /\ queried' = << >> /\ warnings' = << >> /\ raised' = ""
    /\ handle' = "none"

\* what the invocation gave back
Outcome ==
    [loginfos |-> loginfos, history_limit_hint |-> history_limit_hint,
     raised |-> raised]

\* fn_in holds the arguments whose invocations are compared, fn_out what the
\* finished invocations with these arguments gave back, fn_pc whether an
\* invocation with other arguments has run
PagesInit ==
    /\ repo \in RepoStates
    /\ tracked \in RenderRepositories
    /\ repo # "ok" => tracked = << RawLog(1, "GitCommandError", 0, TsEmpty) >>
    /\ Idle /\ NoSanitize /\ NoPage
    /\ \E hl \in Limits : fn_in = [history_limit |-> hl]
    /\ fn_out = << >>
    /\ fn_pc = "same"

\* the next page with the marker: on_page_markdown calls get_recent_changes
Invoke(hl) ==
    /\ pc \in { "idle", "returned", "raised" }
    /\ LET compared == pc # "idle" /\ history_limit = fn_in.history_limit
       IN  /\ compared => Len(fn_out) < MaxCalls
           /\ fn_out' = IF compared THEN Append(fn_out, Outcome) ELSE fn_out
    /\ fn_pc' = IF hl # fn_in.history_limit THEN "other" ELSE fn_pc
    /\ NewActivation(hl)
    /\ UNCHANGED << repo, tracked, fn_in, sanVars, pgVars >>

PagesNext ==
    \/ \E hl \in Limits : Invoke(hl)
    \/ OpenRepo
    \/ ProcessFile
    \/ SortLimitReturn

PagesSpec == PagesInit /\ [][PagesNext]_vars

(* ------------------------------ properties ------------------------------ *)
Finished == pc \in { "returned", "raised" }
Filepaths(entries) == { entries[k].filepath : k \in 1..Len(entries) }
Range(seq) == { seq[k] : k \in 1..Len(seq) }
Succeeds(f) == BodyException(tracked[f]) = ""
IsFatal(f) ==
    BodyException(tracked[f]) \notin { "", "GitCommandError", "IndexError" }
MissingFields(f) == tracked[f].exc = "" /\ tracked[f].n < NumFields
NonIncreasing(entries) ==
    \A k \in 1..(Len(entries) - 1) :
        Instant(entries[k].timestamp) >= Instant(entries[k + 1].timestamp)
\* the words between the opening and the closing paragraph tag
NoticeText(hint) == SubSeq(hint, 2, Len(hint) - 1)

\* C1: with no repository in the current directory or its ancestors,
\* get_recent_changes logs a warning, returns an empty entry list and does not
\* raise.
C1_AbsentRepoReturnsEmpty ==
    (repo = "absent" /\ Finished) =>
        /\ pc = "returned"
        /\ raised = ""
        /\ loginfos = << >>
        /\ warnings # << >>

\* C2: a file whose log output has missing fields (empty output included) is
\* skipped with a warning that carries the hint, and the loop goes on: the
\* operation is not aborted by that file.
C2_MissingFieldsSkipped ==
    \A k \in 1..Len(queried) :
        MissingFields(queried[k]) =>
            /\ \E w \in 1..Len(warnings) :
                   warnings[w].file = queried[k] /\ warnings[w].hint
            /\ ~(pc = "raised" /\ k = Len(queried))

C4_OpenFailureIsFatal ==
    (repo \in { "corrupt", "detached" } /\ pc \notin { "idle", "open" }) =>
        /\ pc = "raised"
        /\ raised = "PluginError"
        /\ queried = << >>
        /\ loginfos = << >>

C4_Witness == repo = "detached" /\ pc = "raised" /\ warnings # << >>

\* C5: an error of one file that is neither GitCommandError nor a missing-field
\* IndexError raises PluginError at once: that file is the last one queried and
\* the function does not return an entry list.
C5_UnexpectedErrorAborts ==
    /\ \A k \in 1..Len(queried) :
          IsFatal(queried[k]) =>
              /\ k = Len(queried)
              /\ pc = "raised"
              /\ raised = "PluginError"
    /\ pc = "returned" => \A f \in Range(files) : ~IsFatal(f)

C5_Witness ==
    /\ pc = "raised"
    /\ Len(files) = 3
    /\ queried = << 1, 2 >>
    /\ tracked[2].exc = "OSError"
    /\ Succeeds(1) /\ Succeeds(3)
    /\ loginfos # << >>

\* C6: the returned entry list is sorted non-increasing by timestamp, for every
\* set of tracked files and every enumeration order.
C6_SortedDescending == pc = "returned" => NonIncreasing(loginfos)

C6_Witness ==
    /\ pc = "returned"
    /\ Len(loginfos) = 3
    /\ ~NonIncreasing(parsed)
    /\ Instant(loginfos[1].timestamp) > Instant(loginfos[2].timestamp)
    /\ Instant(loginfos[2].timestamp) > Instant(loginfos[3].timestamp)

\* C7: with a positive history_limit smaller than the number of parsed entries,
\* exactly history_limit entries are returned, they are parsed entries in
\* descending order, and no dropped entry is newer than a returned one.
C7_TruncatesAfterSorting ==
    (pc = "returned" /\ history_limit > 0 /\ Len(parsed) > history_limit) =>
        /\ Len(loginfos) = history_limit
        /\ Cardinality(Range(loginfos)) = history_limit
        /\ Range(loginfos) \subseteq Range(parsed)
        /\ NonIncreasing(loginfos)
        /\ \A d \in Range(parsed) \ Range(loginfos) :
              \A r \in Range(loginfos) :
                  Instant(d.timestamp) <= Instant(r.timestamp)

C7_Witness ==
    /\ pc = "returned"
    /\ history_limit = 2
    /\ Len(parsed) = 3
    /\ Instant(parsed[1].timestamp) < Instant(parsed[2].timestamp)
    /\ Instant(parsed[2].timestamp) < Instant(parsed[3].timestamp)
    /\ Filepaths(loginfos) = { 2, 3 }

\* C8: with history_limit zero or negative, or with no more parsed entries than
\* a positive history_limit, every parsed entry is returned and the truncation
\* notice is empty.
C8_NoTruncation ==
    (pc = "returned" /\ (history_limit <= 0 \/ Len(parsed) <= history_limit)) =>
        /\ history_limit_hint = << >>
        /\ Len(loginfos) = Len(parsed)
        /\ Range(loginfos) = Range(parsed)

C8_Witness ==
    /\ pc = "returned"
    /\ history_limit = 2
    /\ Len(parsed) = 2
    /\ Len(loginfos) = 2

C8_WitnessUnlimited ==
    /\ pc = "returned"
    /\ history_limit = 0
    /\ Len(loginfos) = 3

\* C9 as stated: on truncation the notice reads "Only the N most recent entries
\* are displayed." with N = history_limit, and "Only the most recent entry is
\* displayed." when history_limit is 1.
C9_NoticeAsStated ==
    (pc = "returned" /\ history_limit_hint # << >>) =>
        NoticeText(history_limit_hint) =
            IF history_limit = 1
            THEN << "Only", "the", "most", "recent", "entry", "is", "displayed." >>
            ELSE << "Only", "the", ToString(history_limit), "most", "recent",
                    "entries", "are", "displayed." >>

\* C9 amended: on truncation the notice is a paragraph whose text reads "Only
\* the most recent N entries are displayed." with N = history_limit, and "Only
\* the most recent entry is displayed." when history_limit is 1; a truncated
\* result always carries the notice.
C9_NoticeText ==
    pc = "returned" =>
        /\ history_limit_hint # << >> =>
              /\ history_limit_hint[1] = PStart
              /\ history_limit_hint[Len(history_limit_hint)] = PEnd
              /\ NoticeText(history_limit_hint) =
                    IF history_limit = 1
                    THEN << "Only", "the", "most", "recent", "entry", "is",
                            "displayed." >>
                    ELSE << "Only", "the", "most", "recent",
                            ToString(history_limit), "entries", "are",
                            "displayed." >>
        /\ Len(loginfos) < Len(parsed) => history_limit_hint # << >>

C9_Witness ==
    /\ pc = "returned"
    /\ history_limit = 1
    /\ Len(parsed) = 3
    /\ history_limit_hint # << >>

C9_WitnessPlural ==
    /\ pc = "returned"
    /\ history_limit = 2
    /\ Len(parsed) = 3
    /\ history_limit_hint # << >>

\* C10: the output of sanitize_string contains none of < > " ' and every & in
\* it starts an entity written by the escaping; "This commit message contains
\* <html>" becomes "This commit message contains &lt;html&gt;" and double
\* quotes become &quot;.
StartsEntityAt(s, p) ==
    \E e \in Entities :
        /\ p + Len(e) - 1 <= Len(s)
        /\ SubSeq(s, p, p + Len(e) - 1) = e

C10_SanitizedIsEscaped ==
    san_pc = "done" =>
        /\ \A p \in 1..Len(san_out) : san_out[p] \notin { "<", ">", "\"", "'" }
        /\ \A p \in 1..Len(san_out) :
              san_out[p] = "&" => StartsEntityAt(san_out, p)
        /\ san_in = MsgHtml => san_out = MsgHtmlRendered
        /\ san_in = MsgQuotes => san_out = MsgQuotesRendered

C10_Witness ==
    /\ san_pc = "done"
    /\ san_in = << "<", "\"", "&" >>
    /\ san_out = EntLt \o EntQuot \o EntAmp

\* C11: sanitize_string removes leading and trailing whitespace and leaves
\* every character other than < > & " ' unchanged and in order (each of the five
\* becomes its entity); a backslash followed by t stays those two characters.
Img(c) ==
    CASE c = "&" -> EntAmp
      [] c = "<" -> EntLt
      [] c = ">" -> EntGt
      [] c = "\"" -> EntQuot
      [] c = "'" -> EntApos
      [] OTHER -> << c >>

RECURSIVE FlatImg(_)
FlatImg(s) == IF s = << >> THEN << >> ELSE Img(Head(s)) \o FlatImg(Tail(s))

\* s[a..b] is s without its leading and trailing whitespace
IsTrimOf(s, a, b) ==
    /\ \A k \in 1..(a - 1) : s[k] \in { " ", "\t", "\n" }
    /\ \A k \in (b + 1)..Len(s) : s[k] \in { " ", "\t", "\n" }
    /\ a <= b => (s[a] \notin { " ", "\t", "\n" } /\ s[b] \notin { " ", "\t", "\n" })
    /\ a > b => a = b + 1

C11_TrimmedAndOthersUnchanged ==
    san_pc = "done" =>
        /\ \E a \in 1..(Len(san_in) + 1) : \E b \in 0..Len(san_in) :
              /\ IsTrimOf(san_in, a, b)
              /\ san_out = FlatImg(SubSeq(san_in, a, b))
        /\ san_in = MsgBackslashT => san_out = MsgBackslashT
        /\ san_in = MsgPadded => san_out = << "\\", "t" >> \o EntLt

C11_Witness ==
    /\ san_pc = "done"
    /\ san_in = << " ", "<", " " >>
    /\ san_out = EntLt

\* C12: get_repo_vendor resolves the vendor from the configured repo_vendor and
\* the discovered repo_name, compared in lower case: if both are non-empty the
\* configured one wins and a disagreement is logged without failing; if only
\* one is non-empty it is used; if both are empty the result is empty.  The
\* value resolved this way is the one returned whenever it is a supported
\* vendor or empty, and otherwise the function returns it or the empty vendor.
ResolvedAsStated(configured, discovered) ==
    IF configured # "" THEN configured ELSE discovered

C12_VendorResolution ==
    fn_pc \in { "git_adapter", "plugin" } =>
        LET configured == Lower(fn_in.repo_vendor)
            discovered == Lower(fn_in.repo_name)
            expected   == ResolvedAsStated(configured, discovered)
        IN  /\ fn_out.resolved = expected
            /\ fn_out.raised = ""
            /\ (configured # "" /\ discovered # "" /\ configured # discovered) =>
                   \E k \in 1..Len(fn_out.log) :
                       fn_out.log[k] = "warning: repo_vendor differs from repo_name"
            /\ expected \in { "", "github", "gitlab", "gitea", "bitbucket" } =>
                   fn_out.vendor = expected
            /\ fn_out.vendor \in { expected, "" }

C12_Witness ==
    /\ fn_pc = "git_adapter"
    /\ fn_in.repo_vendor = "gitlab"
    /\ fn_in.repo_name = "GitHub"
    /\ fn_out.vendor = "gitlab"
    /\ fn_out.log # << >>

\* C13: the vendor returned by get_repo_vendor of git_adapter is empty or one
\* of github, gitlab, gitea, bitbucket, for every configured repo_vendor and
\* discovered repo_name, and the function does not raise.
C13_VendorEmptyOrSupported ==
    fn_pc = "git_adapter" =>
        /\ fn_out.vendor \in { "", "github", "gitlab", "gitea", "bitbucket" }
        /\ fn_out.raised = ""

\* C14: for every Loginfo with an empty repo_vendor or an empty repo_url both
\* get_hash_url and get_file_remote_url are the empty string, and a vendor
\* outside the supported set gives empty URLs too; a URL is never built from
\* part of the fields.
C14_NoPartialRemoteUrl ==
    fn_pc = "models" =>
        /\ (fn_in.repo_vendor = "" \/ fn_in.repo_url = "") =>
               (fn_out.hash_url = << >> /\ fn_out.file_remote_url = << >>)
        /\ fn_in.repo_vendor \notin { "github", "gitlab", "gitea", "bitbucket" } =>
               (fn_out.hash_url = << >> /\ fn_out.file_remote_url = << >>)
        /\ fn_out.hash_url # << >> =>
               (fn_out.hash_url[1] = fn_in.repo_url /\ fn_in.repo_url # "")
        /\ fn_out.file_remote_url # << >> =>
               (fn_out.file_remote_url[1] = fn_in.repo_url /\ fn_in.repo_url # "")

C14_Witness ==
    /\ fn_pc = "models"
    /\ fn_in.repo_vendor = "gitlab"
    /\ fn_in.repo_url = ""
    /\ fn_out.hash_url = << >>

C14_WitnessUnsupported ==
    /\ fn_pc = "models"
    /\ fn_in.repo_vendor = "sourcehut"
    /\ fn_in.repo_url # ""
    /\ fn_out.file_remote_url = << >>

\* C15: with a supported vendor and a non-empty repo_url the commit link is
\* [short hash](commit template with the full hash) and the file link is
\* [filepath](file template with branch and filepath), the templates being
\* those of github, gitlab, gitea and bitbucket written out below.
CommitTarget(v, u, h) ==
    CASE v = "github" -> << u, "/commit/", h >>
      [] v = "gitlab" -> << u, "/-/commit/", h >>
      [] v = "gitea" -> << u, "/commit/", h >>
      [] v = "bitbucket" -> << u, "/commits/", h >>

FileTarget(v, u, b, f) ==
    CASE v = "github" -> << u, "/blob/", b, "/", f >>
      [] v = "gitlab" -> << u, "/-/blob/", b, "/", f >>
      [] v = "gitea" -> << u, "/src/branch/", b, "/", f >>
      [] v = "bitbucket" -> << u, "/browse/", f, "?at=", b >>

C15_LinksFollowVendorTemplates ==
    (fn_pc \in { "models", "plugin" }
        /\ fn_in.repo_vendor \in { "github", "gitlab", "gitea", "bitbucket" }
        /\ fn_in.repo_url # "") =>
        LET ct == CommitTarget(fn_in.repo_vendor, fn_in.repo_url, fn_in.hash_full)
            ft == FileTarget(fn_in.repo_vendor, fn_in.repo_url, fn_in.branch,
                             fn_in.filepath)
        IN  /\ fn_pc = "models" =>
                   (fn_out.hash_url = ct /\ fn_out.file_remote_url = ft)
            /\ fn_pc = "plugin" =>
                   /\ fn_out.raised = ""
                   /\ fn_out.commit_hash_url =
                          << "[", fn_in.hash_short, "](" >> \o ct \o << ")" >>
                   /\ fn_out.filepath_url =
                          << "[", fn_in.filepath, "](" >> \o ft \o << ")" >>

\* the example of the specification
C15_Witness ==
    /\ fn_pc = "plugin"
    /\ fn_in.repo_vendor = "github"
    /\ fn_out.filepath_url =
           << "[", "docs/index.md", "](", "https://github.com/ns/proj", "/blob/",
              "main", "/", "docs/index.md", ")" >>
    /\ fn_out.commit_hash_url =
           << "[", "abcdef1", "](", "https://github.com/ns/proj", "/commit/",
              "abcdef1234567890", ")" >>

\* C16: with no vendor or no repo_url the commit-hash cell is the short hash as
\* plain text and the filepath cell is the filepath as plain text, without
\* markdown link syntax.
C16_PlainCellsWithoutRemote ==
    (fn_pc = "plugin" /\ (fn_in.repo_vendor = "" \/ fn_in.repo_url = "")) =>
        /\ fn_out.raised = ""
        /\ fn_out.commit_hash_url = << fn_in.hash_short >>
        /\ fn_out.filepath_url = << fn_in.filepath >>
        /\ \A k \in 1..Len(fn_out.commit_hash_url) :
               fn_out.commit_hash_url[k] \notin { "[", "](", ")" }
        /\ \A k \in 1..Len(fn_out.filepath_url) :
               fn_out.filepath_url[k] \notin { "[", "](", ")" }

C16_Witness ==
    /\ fn_pc = "plugin"
    /\ fn_in.repo_vendor = "github"
    /\ fn_in.repo_url = ""
    /\ fn_out.commit_hash_url = << "abcdef1" >>
    /\ fn_out.filepath_url = << "README.md" >>

\* C17: render_table called with an empty entry list returns the fixed message
\* "No recent changes found." for every table_features and timestamp_format;
\* the result is neither the empty text nor a header row.
C17_EmptyListGivesMessage ==
    (fn_pc = "rendered" /\ fn_in.loginfos = << >>) =>
        /\ fn_out = << << << "No recent changes found." >> >> >>
        /\ fn_out # << >>
        /\ \A k \in 1..Len(fn_in.table_features) :
               \A l \in 1..Len(fn_out) : \A c \in 1..Len(fn_out[l]) :
                   fn_out[l][c] #
                       << column_headers(fn_in.limit_to_docs_dir)[fn_in.table_features[k]] >>

C17_Witness ==
    /\ fn_pc = "rendered"
    /\ fn_in.loginfos = << >>
    /\ fn_in.table_features = << "filepath", "timestamp" >>
    /\ fn_out[1][1][1] = "No recent changes found."

\* what MkDocs keeps as the page text after the hook: a hook that returns None
\* leaves the text as it was
EffectiveText == IF page.none THEN page.markdown ELSE page.text

HasMarker(text) == \E k \in 1..Len(text) : text[k] = MARKER

PluginActive == ~(~plugin.enabled_on_serve /\ plugin.is_serve)

\* C18: when the page source does not contain the marker, on_page_markdown
\* makes no version-control query (no repository is opened, no file listed, no
\* log asked) and the page text is returned unchanged.
C18_NoMarkerNoWork ==
    (plugin.pc = "done" /\ ~HasMarker(page.markdown)) =>
        /\ ~page.called
        /\ page.queries = << >>
        /\ page.listed = << >>
        /\ page.raised = ""
        /\ EffectiveText = page.markdown
        /\ PluginActive => (~page.none /\ page.text = page.markdown)

C18_Witness ==
    /\ plugin.pc = "done"
    /\ ~HasMarker(page.markdown)
    /\ PluginActive
    /\ docrepo.state = "ok"
    /\ Len(docrepo.files) = MaxPageFiles
    /\ page.text = page.markdown
    /\ page.queries = << >>

C19_WitnessMarkerInSubject ==
    /\ plugin.pc = "done"
    /\ PluginActive
    /\ HasMarker(page.markdown)
    /\ page.raised = ""
    /\ \E k \in 1..Len(page.rows) : HasMarker(page.rows[k].Message)
    /\ HasMarker(page.text)

\* C20: with limit_to_docs_dir enabled only tracked files under the
\* documentation directory are listed, asked for and yield entries, so no entry
\* is of a file outside that directory; with it disabled every tracked file of
\* the repository is listed.
UnderDocs(path) ==
    \E k \in 1..Len(docrepo.files) :
        docrepo.files[k].path = path /\ docrepo.files[k].dir = DocsDir

C20_WitnessDisabled ==
    /\ plugin.pc = "done"
    /\ ~plugin.limit_to_docs_dir
    /\ plugin.history_limit = -1
    /\ Len(docrepo.files) = 2
    /\ docrepo.files[1].dir = "."
    /\ docrepo.files[2].dir = DocsDir
    /\ Len(page.rows) = 2

RecognizedDirective(c) ==
    c \in { "a", "A", "w", "d", "b", "B", "m", "y", "Y", "H", "I", "p", "M",
            "S", "f", "z", "j", "U", "W", "c", "x", "X", "%" }

ContainsDirective(fmt) ==
    \E k \in 1..(Len(fmt) - 1) : fmt[k] = "%" /\ RecognizedDirective(fmt[k + 1])

ConfigChecked == plugin.pc \in { "configured", "aborted", "built" }

C21_WitnessAccepted ==
    /\ plugin.pc = "built"
    /\ plugin.timestamp_format = FmtCustom
    /\ plugin.validated.value = FmtCustom

C21_WitnessRejectedWithDirective ==
    /\ plugin.pc = "aborted"
    /\ plugin.timestamp_format = << "%", "Y", Surrogate >>
    /\ plugin.validated.raised = "ValueError"

C23_HandleReleased ==
    Finished => handle # "open"

PerFileWarnings == { w \in 1..Len(warnings) : warnings[w].file # 0 }

EntriesOf(entries, f) == { k \in 1..Len(entries) : entries[k].filepath = f }

WarningsOf(f) == { w \in 1..Len(warnings) : warnings[w].file = f }

\* C24: every enumerated file has exactly one outcome: one entry, or a skip
\* with a logged warning, or the abort of the operation (logged as well). While
\* the loop runs the entries and the per-file warnings add up to the files
\* handled so far, and at a normal return, before truncation, to the number of
\* enumerated files; no file is without entry and without warning.
C24_OneOutcomePerFile ==
    /\ pc \in { "loop", "raised" } =>
          /\ Len(loginfos) + Cardinality(PerFileWarnings) = i
          /\ \A k \in 1..Len(queried) :
                Cardinality(EntriesOf(loginfos, queried[k]))
                    + Cardinality(WarningsOf(queried[k])) = 1
    /\ (pc = "raised" /\ i > 0) =>
          /\ WarningsOf(queried[i]) # { }
          /\ i = Len(queried)
    /\ pc = "returned" =>
          /\ Len(parsed) + Cardinality(PerFileWarnings) = Len(files)
          /\ \A k \in 1..Len(files) :
                /\ Cardinality(EntriesOf(parsed, files[k])) <= 1
                /\ Cardinality(EntriesOf(parsed, files[k]))
                       + Cardinality(WarningsOf(files[k])) = 1
          /\ \A w \in PerFileWarnings :
                warnings[w].kind \in { "GitCommandError", "IndexError" }

C24_Witness ==
    /\ pc = "returned"
    /\ Len(files) = 3
    /\ Len(parsed) = 1
    /\ Cardinality(PerFileWarnings) = 2
    /\ \E w \in PerFileWarnings : warnings[w].kind = "GitCommandError"
    /\ \E w \in PerFileWarnings : warnings[w].kind = "IndexError"

\* C25: entries with equal timestamps appear in the result in the order in
\* which their files were enumerated (the descending sort is stable): of two
\* returned entries of the same instant the one enumerated first comes first.
PositionIn(entries, e) == CHOOSE k \in 1..Len(entries) : entries[k] = e

C25_StableSort ==
    pc = "returned" =>
        \A a, b \in 1..Len(loginfos) :
            (a < b /\ Instant(loginfos[a].timestamp) = Instant(loginfos[b].timestamp)) =>
                /\ PositionIn(parsed, loginfos[a]) < PositionIn(parsed, loginfos[b])
                /\ PositionIn(files, loginfos[a].filepath)
                       < PositionIn(files, loginfos[b].filepath)

C25_Witness ==
    /\ pc = "returned"
    /\ Len(loginfos) = 3
    /\ loginfos[1].filepath = 2
    /\ loginfos[2].filepath = 3
    /\ loginfos[3].filepath = 1
    /\ Instant(loginfos[1].timestamp) = Instant(loginfos[2].timestamp)
    /\ loginfos[1].timestamp # loginfos[2].timestamp
    /\ Instant(loginfos[2].timestamp) > Instant(loginfos[3].timestamp)

\* the relative path from directory `from` to `to`: up to the common ancestor
\* with "..", then down
CommonLen(a, b) ==
    CHOOSE n \in 0..Len(a) :
        /\ n <= Len(b)
        /\ SubSeq(a, 1, n) = SubSeq(b, 1, n)
        /\ (n < Len(a) /\ n < Len(b)) => a[n + 1] # b[n + 1]

RelativeFrom(from, to) ==
    [k \in 1..(Len(from) - CommonLen(from, to)) |-> ".."]
        \o SubSeq(to, CommonLen(from, to) + 1, Len(to))

\* C26: get_rel_path returns the bare filename of dest_path when both files are
\* in the same directory, otherwise the POSIX-style relative path from the
\* directory of src_path to dest_path; the empty string is returned only when
\* no relative path between the two exists.
C26_RelPathAsStated ==
    fn_pc = "rel_path" =>
        LET src_dir == SubSeq(fn_in.src_path, 1, Len(fn_in.src_path) - 1)
            dest_dir == SubSeq(fn_in.dest_path, 1, Len(fn_in.dest_path) - 1)
        IN  /\ src_dir = dest_dir =>
                   fn_out = << fn_in.dest_path[Len(fn_in.dest_path)] >>
            /\ (src_dir # dest_dir /\ fn_in.dest_path # src_dir) =>
                   fn_out = RelativeFrom(src_dir, fn_in.dest_path)
            /\ fn_out = << >> => RelativeFrom(src_dir, fn_in.dest_path) = << >>

\* C27: an invocation of get_recent_changes gives back the same entries, the
\* same truncation notice and the same exception as every earlier invocation
\* with the same arguments against the same repository, whatever invocations
\* ran in between; an invocation starts with no entry, no warning and no file
\* of an earlier one.
C27_InvocationsIndependent ==
    /\ (Finished /\ history_limit = fn_in.history_limit) =>
          \A k \in 1..Len(fn_out) :
              /\ fn_out[k].loginfos = loginfos
              /\ fn_out[k].history_limit_hint = history_limit_hint
              /\ fn_out[k].raised = raised
    /\ pc = "open" =>
          /\ loginfos = << >> /\ parsed = << >> /\ history_limit_hint = << >>
          /\ files = << >> /\ queried = << >> /\ warnings = << >>

C27_Witness ==
    /\ pc = "returned"
    /\ history_limit = fn_in.history_limit
    /\ Len(fn_out) = MaxCalls
    /\ fn_pc = "other"
    /\ warnings # << >>
    /\ loginfos # << >>
    /\ history_limit_hint # << >>
    /\ fn_out[1].loginfos = loginfos

C27_WitnessAfterAbort ==
    /\ pc = "raised"
    /\ raised = "PluginError"
    /\ i > 1
    /\ history_limit = fn_in.history_limit
    /\ fn_pc = "other"
    /\ fn_out # << >>
    /\ fn_out[1].raised = "PluginError"

C28_WitnessGhDeploy ==
    /\ plugin.pc = "done"
    /\ ~plugin.enabled_on_serve
    /\ plugin.command = "gh-deploy"
    /\ HasMarker(page.markdown)
    /\ page.rows # << >>
    /\ ~HasMarker(page.text)

====
